---- MODULE Spec2Model ----
(***************************************************************************)
(* A model of explodey_sweeper.py: the Board (mine placement, adjacency    *)
(* numbers, reveal with flood fill, flags, reset) and the Controller state *)
(* machine that drives it from the player's input.                         *)
(*                                                                         *)
(* Text is modelled by code points: a str is a sequence of the ord() of    *)
(* its characters, so that lower() and convert_move_to_xy compute on the   *)
(* characters as the code does.  The random module is modelled by the      *)
(* sequence of (x, y) pairs that successive randrange calls return.        *)
(***************************************************************************)
EXTENDS Integers, Sequences, FiniteSets, TLC

VARIABLES
    board,              \* Controller.board: a Board record, or None
    current_state,      \* Controller.current_state: a State value
    mode,               \* Controller.mode
    mines_left,         \* Controller.mines_left (Unset until a game is built)
    flagged_locations   \* Controller.flagged_locations: set of <<x, y>>

vars == <<board, current_state, mode, mines_left, flagged_locations>>

---------------------------------------------------------------------------
(* Module constants of explodey_sweeper.py *)

DEFAULT_BOARD_WIDTH == 9
DEFAULT_BOARD_HEIGHT == 9
DEFAULT_MINE_COUNT == 10
EMPTY_SPACE == "░"
MINE == "*"

\* The 8 cells adjacent to a cell, from the left one, clockwise
adjacent_cells ==
    << <<-1, 0>>, <<-1, -1>>, <<0, -1>>, <<1, -1>>,
       <<1, 0>>, <<1, 1>>, <<0, 1>>, <<-1, 1>> >>

\* class State
PLAYING == "play"
PLAYER_WON == "win"
PLAYER_LOST == "lost"
PLAYER_QUIT == "quit"
NEW_GAME == "new"
RESET == "reset"
MENU == "menu"

\* Controller.board is None after a refused setup
None == [none |-> TRUE]
\* Controller.mines_left is declared init=False: no value before a game is built
Unset == "unset"

---------------------------------------------------------------------------
(* str(int) and int(str) on the one-character numbers a cell can hold *)

DigitChars == <<"0", "1", "2", "3", "4", "5", "6", "7", "8", "9">>

IntOfStr(c) == (CHOOSE k \in 1..Len(DigitChars) : DigitChars[k] = c) - 1

StrOfInt(n) == DigitChars[n + 1]

---------------------------------------------------------------------------
(* class Cell and class Board *)

Cell == [character |-> EMPTY_SPACE, revealed |-> FALSE, flagged |-> FALSE]

\* the index of cell (x, y) in Board.cells
CellIndex(b, x, y) == y * b.width + x

InBoard(b, x, y) == x >= 0 /\ y >= 0 /\ x < b.width /\ y < b.height

\* PlaceDraw without the test that draws a taken pair again
PlaceDrawNoReject(p, draws) ==
    IF p.remaining = 0 \/ p.k > Len(draws) THEN p
    ELSE LET x == draws[p.k][1]
             y == draws[p.k][2]
         IN  [board |-> [p.board EXCEPT
                            !.mine_locations = @ \cup {<<x, y>>},
                            !.cells[y * p.board.width + x].character = MINE],
              remaining |-> p.remaining - 1,
              k |-> p.k + 1]

\* Board.__post_init__, one pass of the `while` loop of the mine placing:
\* p.remaining mines are still to place, draws[p.k] is the pair the two
\* randrange calls return.  A pair already in mine_locations is drawn again.
PlaceDraw(p, draws) ==
    IF p.remaining = 0 \/ p.k > Len(draws) THEN p
    ELSE LET x == draws[p.k][1]
             y == draws[p.k][2]
         IN  IF x < 0 \/ y < 0 \/ <<x, y>> \in p.board.mine_locations
             THEN [p EXCEPT !.k = @ + 1]
             ELSE [board |-> [p.board EXCEPT
                                 !.mine_locations = @ \cup {<<x, y>>},
                                 !.cells[y * p.board.width + x].character = MINE],
                   remaining |-> p.remaining - 1,
                   k |-> p.k + 1]

\* n passes of that loop, run by halves so that the evaluation stays shallow
RECURSIVE PlaceDraws(_, _, _)
PlaceDraws(p, draws, n) ==
    IF n = 0 \/ p.remaining = 0 \/ p.k > Len(draws) THEN p
    ELSE IF n = 1 THEN PlaceDraw(p, draws)
    ELSE PlaceDraws(PlaceDraws(p, draws, n \div 2), draws, n - (n \div 2))

\* the mine placing: ok when the draws were enough to place every mine
PlaceMines(b, number_of_mines, draws) ==
    LET p == PlaceDraws([board |-> b, remaining |-> number_of_mines, k |-> 1],
                        draws, Len(draws))
    IN  [ok |-> p.remaining = 0, board |-> p.board]

get_cell_character(b, x, y) == b.cells[y * b.width + x].character

is_revealed(b, x, y) == b.cells[y * b.width + x].revealed

is_flagged(b, x, y) == b.cells[y * b.width + x].flagged

\* FillOne that writes "1" over the number a cell already holds
FillOneOverwrite(b, mine_location, position) ==
    LET ax == mine_location[1] + position[1]
        ay == mine_location[2] + position[2]
    IN  IF ax < 0 \/ ay < 0 \/ ax >= b.width \/ ay >= b.height THEN b
        ELSE IF get_cell_character(b, ax, ay) = MINE THEN b
        ELSE [b EXCEPT !.cells[ay * b.width + ax].character = "1"]

\* fill_board_with_numbers, the body of the inner loop for one mine and one
\* adjacent position
FillOne(b, mine_location, position) ==
    LET ax == mine_location[1] + position[1]
        ay == mine_location[2] + position[2]
    IN  IF ax < 0 \/ ay < 0 \/ ax >= b.width \/ ay >= b.height THEN b
        ELSE LET cell == get_cell_character(b, ax, ay)
             IN  IF cell = EMPTY_SPACE
                 THEN [b EXCEPT !.cells[ay * b.width + ax].character = "1"]
                 ELSE IF cell = MINE THEN b
                 ELSE [b EXCEPT !.cells[ay * b.width + ax].character =
                                    StrOfInt(IntOfStr(cell) + 1)]

\* fill_board_with_numbers, the inner loop from position i on
RECURSIVE FillAround(_, _, _)
FillAround(b, mine_location, i) ==
    IF i > Len(adjacent_cells) \/ b.width < 0 THEN b
    ELSE FillAround(FillOne(b, mine_location, adjacent_cells[i]),
                    mine_location, i + 1)

\* fill_board_with_numbers, the outer loop over mine_locations, taken in the
\* order of the cells lo..hi (a set has no order of its own, and the counts
\* do not depend on it); run by halves
RECURSIVE FillRange(_, _, _)
FillRange(b, lo, hi) ==
    IF lo > hi \/ b.width < 0 THEN b
    ELSE IF lo = hi
    THEN LET m == <<lo % b.width, lo \div b.width>>
         IN  IF m \in b.mine_locations THEN FillAround(b, m, 1) ELSE b
    ELSE LET mid == (lo + hi) \div 2
         IN  FillRange(FillRange(b, lo, mid), mid + 1, hi)

fill_board_with_numbers(b) == FillRange(b, 0, b.width * b.height - 1)

\* Board(width, height, number_of_mines) with the given random draws
NewBoard(width, height, number_of_mines, draws) ==
    LET b0 == [cells |-> [i \in 0..(width * height - 1) |-> Cell],
               mine_locations |-> {},
               width |-> width,
               height |-> height,
               number_of_mines |-> number_of_mines]
        placed == PlaceMines(b0, number_of_mines, draws)
    IN  [ok |-> placed.ok, board |-> fill_board_with_numbers(placed.board)]

\* reveal_all_mines with x and y swapped in the index
reveal_all_mines_swapped(b) ==
    [b EXCEPT !.cells =
        [i \in DOMAIN b.cells |->
            IF \E mine_cell \in b.mine_locations :
                   mine_cell[1] * b.width + mine_cell[2] = i
            THEN [b.cells[i] EXCEPT !.revealed = TRUE]
            ELSE b.cells[i]]]

\* reveal_all_mines
reveal_all_mines(b) ==
    [b EXCEPT !.cells =
        [i \in DOMAIN b.cells |->
            IF \E mine_cell \in b.mine_locations :
                   mine_cell[2] * b.width + mine_cell[1] = i
            THEN [b.cells[i] EXCEPT !.revealed = TRUE]
            ELSE b.cells[i]]]

\* reveal_surrounding_cells runs on an explicit call stack.  A frame is one
\* call: its arguments, the position i of its loop over adjacent_cells, its
\* next_cells list, and the position j of the loop over next_cells that is
\* nested in that loop (j = 0: the pass at i has not started).
Frame(starting_x, starting_y) ==
    [starting_x |-> starting_x, starting_y |-> starting_y,
     i |-> 1, next_cells |-> <<>>, j |-> 0]

\* FloodStep that takes every Empty adjacent cell as a new centre, revealed
\* or not
FloodStepRevisit(m) ==
    LET top == Len(m.stack)
        f == m.stack[top]
    IN  IF f.i > Len(adjacent_cells)
        THEN \* the loop over adjacent_cells is over: the call returns
             [m EXCEPT !.stack = SubSeq(m.stack, 1, top - 1)]
        ELSE IF f.j = 0
        THEN LET x == f.starting_x + adjacent_cells[f.i][1]
                 y == f.starting_y + adjacent_cells[f.i][2]
             IN  IF x < 0 \/ y < 0 \/ x >= m.b.width \/ y >= m.b.height
                 THEN \* continue
                      [m EXCEPT !.stack[top].i = @ + 1]
                 ELSE LET cell == m.b.cells[y * m.b.width + x]
                      IN  IF cell.character = EMPTY_SPACE
                          THEN [m EXCEPT
                                   !.b.cells[y * m.b.width + x].revealed = TRUE,
                                   !.stack[top].next_cells = Append(@, <<x, y>>),
                                   !.stack[top].j = 1]
                          ELSE IF cell.character # MINE
                          THEN [m EXCEPT
                                   !.b.cells[y * m.b.width + x].revealed = TRUE,
                                   !.stack[top].j = 1]
                          ELSE [m EXCEPT !.stack[top].j = 1]
        ELSE IF f.j > Len(f.next_cells)
        THEN \* the loop over next_cells is over: the next adjacent cell
             [m EXCEPT !.stack[top].i = @ + 1, !.stack[top].j = 0]
        ELSE \* the recursive call on next_cells[j]
             [m EXCEPT !.stack[top].j = @ + 1,
                       !.stack = Append(@, Frame(f.next_cells[f.j][1],
                                                 f.next_cells[f.j][2]))]

\* one step of the call on top of the stack
FloodStep(m) ==
    LET top == Len(m.stack)
        f == m.stack[top]
    IN  IF f.i > Len(adjacent_cells)
        THEN \* the loop over adjacent_cells is over: the call returns
             [m EXCEPT !.stack = SubSeq(m.stack, 1, top - 1)]
        ELSE IF f.j = 0
        THEN LET x == f.starting_x + adjacent_cells[f.i][1]
                 y == f.starting_y + adjacent_cells[f.i][2]
             IN  IF x < 0 \/ y < 0 \/ x >= m.b.width \/ y >= m.b.height
                 THEN \* continue
                      [m EXCEPT !.stack[top].i = @ + 1]
                 ELSE LET cell == m.b.cells[y * m.b.width + x]
                      IN  IF cell.character = EMPTY_SPACE /\ ~cell.revealed
                          THEN [m EXCEPT
                                   !.b.cells[y * m.b.width + x].revealed = TRUE,
                                   !.stack[top].next_cells = Append(@, <<x, y>>),
                                   !.stack[top].j = 1]
                          ELSE IF cell.character # MINE
                          THEN [m EXCEPT
                                   !.b.cells[y * m.b.width + x].revealed = TRUE,
                                   !.stack[top].j = 1]
                          ELSE [m EXCEPT !.stack[top].j = 1]
        ELSE IF f.j > Len(f.next_cells)
        THEN \* the loop over next_cells is over: the next adjacent cell
             [m EXCEPT !.stack[top].i = @ + 1, !.stack[top].j = 0]
        ELSE \* the recursive call on next_cells[j]
             [m EXCEPT !.stack[top].j = @ + 1,
                       !.stack = Append(@, Frame(f.next_cells[f.j][1],
                                                 f.next_cells[f.j][2]))]

\* at most n steps, run by halves so that the evaluation stays shallow
RECURSIVE FloodRun(_, _)
FloodRun(m, n) ==
    IF n = 0 \/ m.stack = <<>> THEN m
    ELSE IF n = 1 THEN FloodStep(m)
    ELSE FloodRun(FloodRun(m, n \div 2), n - (n \div 2))

\* reveal_surrounding_cells without the recursive calls: the adjacent cells
\* only
reveal_surrounding_once(b, starting_x, starting_y) ==
    [b EXCEPT !.cells =
        [i \in DOMAIN b.cells |->
            IF \E k \in DOMAIN adjacent_cells :
                   LET x == starting_x + adjacent_cells[k][1]
                       y == starting_y + adjacent_cells[k][2]
                   IN  /\ x >= 0 /\ y >= 0 /\ x < b.width /\ y < b.height
                       /\ y * b.width + x = i
                       /\ b.cells[i].character # MINE
            THEN [b.cells[i] EXCEPT !.revealed = TRUE]
            ELSE b.cells[i]]]

\* more steps than any call of the model takes
FloodFuel == 1048576

\* reveal_surrounding_cells, run until the first call returns
reveal_surrounding_cells(b, starting_x, starting_y) ==
    LET m == FloodRun([b |-> b, stack |-> <<Frame(starting_x, starting_y)>>],
                      FloodFuel)
    IN  IF m.stack = <<>> THEN m.b ELSE CHOOSE unfinished \in {} : TRUE

\* reveal_cell
reveal_cell(b, x, y) ==
    LET b1 == [b EXCEPT !.cells[y * b.width + x].revealed = TRUE]
    IN  IF b.cells[y * b.width + x].character = EMPTY_SPACE
        THEN reveal_surrounding_cells(b1, x, y)
        ELSE b1

flag_cell(b, x, y) == [b EXCEPT !.cells[y * b.width + x].flagged = TRUE]

unflag_cell(b, x, y) == [b EXCEPT !.cells[y * b.width + x].flagged = FALSE]

\* Board.reset that leaves the flags
reset_keeps_flags(b) ==
    [b EXCEPT !.cells = [i \in DOMAIN b.cells |->
                            [b.cells[i] EXCEPT !.revealed = FALSE]]]

\* Board.reset
reset(b) ==
    [b EXCEPT !.cells = [i \in DOMAIN b.cells |->
                            [b.cells[i] EXCEPT !.revealed = FALSE,
                                               !.flagged = FALSE]]]


---------------------------------------------------------------------------
(* Text: a str is the sequence of the code points of its characters *)

\* str.lower(), the code points it changes: <<first, last, step, shift>>
\* stands for first, first + step, ..., last, each lowered to itself + shift
LowerRuns ==
    {<<65, 90, 1, 32>>, <<192, 214, 1, 32>>, <<216, 222, 1, 32>>,
     <<256, 302, 2, 1>>, <<306, 310, 2, 1>>, <<313, 327, 2, 1>>,
     <<330, 374, 2, 1>>, <<376, 376, 1, -121>>, <<377, 381, 2, 1>>,
     <<385, 385, 1, 210>>, <<386, 388, 2, 1>>, <<390, 390, 1, 206>>,
     <<391, 391, 1, 1>>, <<393, 394, 1, 205>>, <<395, 395, 1, 1>>,
     <<398, 398, 1, 79>>, <<399, 399, 1, 202>>, <<400, 400, 1, 203>>,
     <<401, 401, 1, 1>>, <<403, 403, 1, 205>>, <<404, 404, 1, 207>>,
     <<406, 406, 1, 211>>, <<407, 407, 1, 209>>, <<408, 408, 1, 1>>,
     <<412, 412, 1, 211>>, <<413, 413, 1, 213>>, <<415, 415, 1, 214>>,
     <<416, 420, 2, 1>>, <<422, 422, 1, 218>>, <<423, 423, 1, 1>>,
     <<425, 425, 1, 218>>, <<428, 428, 1, 1>>, <<430, 430, 1, 218>>,
     <<431, 431, 1, 1>>, <<433, 434, 1, 217>>, <<435, 437, 2, 1>>,
     <<439, 439, 1, 219>>, <<440, 440, 1, 1>>, <<444, 444, 1, 1>>,
     <<452, 452, 1, 2>>, <<453, 453, 1, 1>>, <<455, 455, 1, 2>>,
     <<456, 456, 1, 1>>, <<458, 458, 1, 2>>, <<459, 475, 2, 1>>,
     <<478, 494, 2, 1>>, <<497, 497, 1, 2>>, <<498, 500, 2, 1>>,
     <<502, 502, 1, -97>>, <<503, 503, 1, -56>>, <<504, 542, 2, 1>>,
     <<544, 544, 1, -130>>, <<546, 562, 2, 1>>, <<570, 570, 1, 10795>>,
     <<571, 571, 1, 1>>, <<573, 573, 1, -163>>, <<574, 574, 1, 10792>>,
     <<577, 577, 1, 1>>, <<579, 579, 1, -195>>, <<580, 580, 1, 69>>,
     <<581, 581, 1, 71>>, <<582, 590, 2, 1>>, <<880, 882, 2, 1>>,
     <<886, 886, 1, 1>>, <<895, 895, 1, 116>>, <<902, 902, 1, 38>>,
     <<904, 906, 1, 37>>, <<908, 908, 1, 64>>, <<910, 911, 1, 63>>,
     <<913, 929, 1, 32>>, <<931, 939, 1, 32>>, <<975, 975, 1, 8>>,
     <<984, 1006, 2, 1>>, <<1012, 1012, 1, -60>>, <<1015, 1015, 1, 1>>,
     <<1017, 1017, 1, -7>>, <<1018, 1018, 1, 1>>, <<1021, 1023, 1, -130>>,
     <<1024, 1039, 1, 80>>, <<1040, 1071, 1, 32>>, <<1120, 1152, 2, 1>>,
     <<1162, 1214, 2, 1>>, <<1216, 1216, 1, 15>>, <<1217, 1229, 2, 1>>,
     <<1232, 1326, 2, 1>>, <<1329, 1366, 1, 48>>, <<4256, 4293, 1, 7264>>,
     <<4295, 4295, 1, 7264>>, <<4301, 4301, 1, 7264>>, <<5024, 5103, 1, 38864>>,
     <<5104, 5109, 1, 8>>, <<7312, 7354, 1, -3008>>, <<7357, 7359, 1, -3008>>,
     <<7680, 7828, 2, 1>>, <<7838, 7838, 1, -7615>>, <<7840, 7934, 2, 1>>,
     <<7944, 7951, 1, -8>>, <<7960, 7965, 1, -8>>, <<7976, 7983, 1, -8>>,
     <<7992, 7999, 1, -8>>, <<8008, 8013, 1, -8>>, <<8025, 8031, 2, -8>>,
     <<8040, 8047, 1, -8>>, <<8072, 8079, 1, -8>>, <<8088, 8095, 1, -8>>,
     <<8104, 8111, 1, -8>>, <<8120, 8121, 1, -8>>, <<8122, 8123, 1, -74>>,
     <<8124, 8124, 1, -9>>, <<8136, 8139, 1, -86>>, <<8140, 8140, 1, -9>>,
     <<8152, 8153, 1, -8>>, <<8154, 8155, 1, -100>>, <<8168, 8169, 1, -8>>,
     <<8170, 8171, 1, -112>>, <<8172, 8172, 1, -7>>, <<8184, 8185, 1, -128>>,
     <<8186, 8187, 1, -126>>, <<8188, 8188, 1, -9>>, <<8486, 8486, 1, -7517>>,
     <<8490, 8490, 1, -8383>>, <<8491, 8491, 1, -8262>>, <<8498, 8498, 1, 28>>,
     <<8544, 8559, 1, 16>>, <<8579, 8579, 1, 1>>, <<9398, 9423, 1, 26>>,
     <<11264, 11311, 1, 48>>, <<11360, 11360, 1, 1>>, <<11362, 11362, 1, -10743>>,
     <<11363, 11363, 1, -3814>>, <<11364, 11364, 1, -10727>>, <<11367, 11371, 2, 1>>,
     <<11373, 11373, 1, -10780>>, <<11374, 11374, 1, -10749>>, <<11375, 11375, 1, -10783>>,
     <<11376, 11376, 1, -10782>>, <<11378, 11378, 1, 1>>, <<11381, 11381, 1, 1>>,
     <<11390, 11391, 1, -10815>>, <<11392, 11490, 2, 1>>, <<11499, 11501, 2, 1>>,
     <<11506, 11506, 1, 1>>, <<42560, 42604, 2, 1>>, <<42624, 42650, 2, 1>>,
     <<42786, 42798, 2, 1>>, <<42802, 42862, 2, 1>>, <<42873, 42875, 2, 1>>,
     <<42877, 42877, 1, -35332>>, <<42878, 42886, 2, 1>>, <<42891, 42891, 1, 1>>,
     <<42893, 42893, 1, -42280>>, <<42896, 42898, 2, 1>>, <<42902, 42920, 2, 1>>,
     <<42922, 42922, 1, -42308>>, <<42923, 42923, 1, -42319>>, <<42924, 42924, 1, -42315>>,
     <<42925, 42925, 1, -42305>>, <<42926, 42926, 1, -42308>>, <<42928, 42928, 1, -42258>>,
     <<42929, 42929, 1, -42282>>, <<42930, 42930, 1, -42261>>, <<42931, 42931, 1, 928>>,
     <<42932, 42946, 2, 1>>, <<42948, 42948, 1, -48>>, <<42949, 42949, 1, -42307>>,
     <<42950, 42950, 1, -35384>>, <<42951, 42953, 2, 1>>, <<42960, 42960, 1, 1>>,
     <<42966, 42968, 2, 1>>, <<42997, 42997, 1, 1>>, <<65313, 65338, 1, 32>>,
     <<66560, 66599, 1, 40>>, <<66736, 66771, 1, 40>>, <<66928, 66964, 2, 39>>,
     <<66929, 66937, 2, 39>>, <<66941, 66953, 2, 39>>, <<66957, 66961, 2, 39>>,
     <<66965, 66965, 1, 39>>, <<68736, 68786, 1, 64>>, <<71840, 71871, 1, 32>>,
     <<93760, 93791, 1, 32>>, <<125184, 125217, 1, 34>>}

\* the code points that are cased and not case-ignorable, as <<first, last>>
CasedRanges ==
    {<<65, 90>>, <<97, 122>>, <<170, 170>>, <<181, 181>>,
     <<186, 186>>, <<192, 214>>, <<216, 246>>, <<248, 442>>,
     <<444, 447>>, <<452, 659>>, <<661, 687>>, <<880, 883>>,
     <<886, 887>>, <<891, 893>>, <<895, 895>>, <<902, 902>>,
     <<904, 906>>, <<908, 908>>, <<910, 929>>, <<931, 1013>>,
     <<1015, 1153>>, <<1162, 1327>>, <<1329, 1366>>, <<1376, 1416>>,
     <<4256, 4293>>, <<4295, 4295>>, <<4301, 4301>>, <<4304, 4346>>,
     <<4349, 4351>>, <<5024, 5109>>, <<5112, 5117>>, <<7296, 7304>>,
     <<7312, 7354>>, <<7357, 7359>>, <<7424, 7467>>, <<7531, 7543>>,
     <<7545, 7578>>, <<7680, 7957>>, <<7960, 7965>>, <<7968, 8005>>,
     <<8008, 8013>>, <<8016, 8023>>, <<8025, 8025>>, <<8027, 8027>>,
     <<8029, 8029>>, <<8031, 8061>>, <<8064, 8116>>, <<8118, 8124>>,
     <<8126, 8126>>, <<8130, 8132>>, <<8134, 8140>>, <<8144, 8147>>,
     <<8150, 8155>>, <<8160, 8172>>, <<8178, 8180>>, <<8182, 8188>>,
     <<8450, 8450>>, <<8455, 8455>>, <<8458, 8467>>, <<8469, 8469>>,
     <<8473, 8477>>, <<8484, 8484>>, <<8486, 8486>>, <<8488, 8488>>,
     <<8490, 8493>>, <<8495, 8500>>, <<8505, 8505>>, <<8508, 8511>>,
     <<8517, 8521>>, <<8526, 8526>>, <<8544, 8575>>, <<8579, 8580>>,
     <<9398, 9449>>, <<11264, 11387>>, <<11390, 11492>>, <<11499, 11502>>,
     <<11506, 11507>>, <<11520, 11557>>, <<11559, 11559>>, <<11565, 11565>>,
     <<42560, 42605>>, <<42624, 42651>>, <<42786, 42863>>, <<42865, 42887>>,
     <<42891, 42894>>, <<42896, 42954>>, <<42960, 42961>>, <<42963, 42963>>,
     <<42965, 42969>>, <<42997, 42998>>, <<43002, 43002>>, <<43824, 43866>>,
     <<43872, 43880>>, <<43888, 43967>>, <<64256, 64262>>, <<64275, 64279>>,
     <<65313, 65338>>, <<65345, 65370>>, <<66560, 66639>>, <<66736, 66771>>,
     <<66776, 66811>>, <<66928, 66938>>, <<66940, 66954>>, <<66956, 66962>>,
     <<66964, 66965>>, <<66967, 66977>>, <<66979, 66993>>, <<66995, 67001>>,
     <<67003, 67004>>, <<68736, 68786>>, <<68800, 68850>>, <<71840, 71903>>,
     <<93760, 93823>>, <<119808, 119892>>, <<119894, 119964>>, <<119966, 119967>>,
     <<119970, 119970>>, <<119973, 119974>>, <<119977, 119980>>, <<119982, 119993>>,
     <<119995, 119995>>, <<119997, 120003>>, <<120005, 120069>>, <<120071, 120074>>,
     <<120077, 120084>>, <<120086, 120092>>, <<120094, 120121>>, <<120123, 120126>>,
     <<120128, 120132>>, <<120134, 120134>>, <<120138, 120144>>, <<120146, 120485>>,
     <<120488, 120512>>, <<120514, 120538>>, <<120540, 120570>>, <<120572, 120596>>,
     <<120598, 120628>>, <<120630, 120654>>, <<120656, 120686>>, <<120688, 120712>>,
     <<120714, 120744>>, <<120746, 120770>>, <<120772, 120779>>, <<122624, 122633>>,
     <<122635, 122654>>, <<125184, 125251>>, <<127280, 127305>>, <<127312, 127337>>,
     <<127344, 127369>>}

\* the case-ignorable code points, as <<first, last>>
CaseIgnorableRanges ==
    {<<39, 39>>, <<46, 46>>, <<58, 58>>, <<94, 94>>,
     <<96, 96>>, <<168, 168>>, <<173, 173>>, <<175, 175>>,
     <<180, 180>>, <<183, 184>>, <<688, 879>>, <<884, 885>>,
     <<890, 890>>, <<900, 901>>, <<903, 903>>, <<1155, 1161>>,
     <<1369, 1369>>, <<1375, 1375>>, <<1425, 1469>>, <<1471, 1471>>,
     <<1473, 1474>>, <<1476, 1477>>, <<1479, 1479>>, <<1524, 1524>>,
     <<1536, 1541>>, <<1552, 1562>>, <<1564, 1564>>, <<1600, 1600>>,
     <<1611, 1631>>, <<1648, 1648>>, <<1750, 1757>>, <<1759, 1768>>,
     <<1770, 1773>>, <<1807, 1807>>, <<1809, 1809>>, <<1840, 1866>>,
     <<1958, 1968>>, <<2027, 2037>>, <<2042, 2042>>, <<2045, 2045>>,
     <<2070, 2093>>, <<2137, 2139>>, <<2184, 2184>>, <<2192, 2193>>,
     <<2200, 2207>>, <<2249, 2306>>, <<2362, 2362>>, <<2364, 2364>>,
     <<2369, 2376>>, <<2381, 2381>>, <<2385, 2391>>, <<2402, 2403>>,
     <<2417, 2417>>, <<2433, 2433>>, <<2492, 2492>>, <<2497, 2500>>,
     <<2509, 2509>>, <<2530, 2531>>, <<2558, 2558>>, <<2561, 2562>>,
     <<2620, 2620>>, <<2625, 2626>>, <<2631, 2632>>, <<2635, 2637>>,
     <<2641, 2641>>, <<2672, 2673>>, <<2677, 2677>>, <<2689, 2690>>,
     <<2748, 2748>>, <<2753, 2757>>, <<2759, 2760>>, <<2765, 2765>>,
     <<2786, 2787>>, <<2810, 2815>>, <<2817, 2817>>, <<2876, 2876>>,
     <<2879, 2879>>, <<2881, 2884>>, <<2893, 2893>>, <<2901, 2902>>,
     <<2914, 2915>>, <<2946, 2946>>, <<3008, 3008>>, <<3021, 3021>>,
     <<3072, 3072>>, <<3076, 3076>>, <<3132, 3132>>, <<3134, 3136>>,
     <<3142, 3144>>, <<3146, 3149>>, <<3157, 3158>>, <<3170, 3171>>,
     <<3201, 3201>>, <<3260, 3260>>, <<3263, 3263>>, <<3270, 3270>>,
     <<3276, 3277>>, <<3298, 3299>>, <<3328, 3329>>, <<3387, 3388>>,
     <<3393, 3396>>, <<3405, 3405>>, <<3426, 3427>>, <<3457, 3457>>,
     <<3530, 3530>>, <<3538, 3540>>, <<3542, 3542>>, <<3633, 3633>>,
     <<3636, 3642>>, <<3654, 3662>>, <<3761, 3761>>, <<3764, 3772>>,
     <<3782, 3782>>, <<3784, 3789>>, <<3864, 3865>>, <<3893, 3893>>,
     <<3895, 3895>>, <<3897, 3897>>, <<3953, 3966>>, <<3968, 3972>>,
     <<3974, 3975>>, <<3981, 3991>>, <<3993, 4028>>, <<4038, 4038>>,
     <<4141, 4144>>, <<4146, 4151>>, <<4153, 4154>>, <<4157, 4158>>,
     <<4184, 4185>>, <<4190, 4192>>, <<4209, 4212>>, <<4226, 4226>>,
     <<4229, 4230>>, <<4237, 4237>>, <<4253, 4253>>, <<4348, 4348>>,
     <<4957, 4959>>, <<5906, 5908>>, <<5938, 5939>>, <<5970, 5971>>,
     <<6002, 6003>>, <<6068, 6069>>, <<6071, 6077>>, <<6086, 6086>>,
     <<6089, 6099>>, <<6103, 6103>>, <<6109, 6109>>, <<6155, 6159>>,
     <<6211, 6211>>, <<6277, 6278>>, <<6313, 6313>>, <<6432, 6434>>,
     <<6439, 6440>>, <<6450, 6450>>, <<6457, 6459>>, <<6679, 6680>>,
     <<6683, 6683>>, <<6742, 6742>>, <<6744, 6750>>, <<6752, 6752>>,
     <<6754, 6754>>, <<6757, 6764>>, <<6771, 6780>>, <<6783, 6783>>,
     <<6823, 6823>>, <<6832, 6862>>, <<6912, 6915>>, <<6964, 6964>>,
     <<6966, 6970>>, <<6972, 6972>>, <<6978, 6978>>, <<7019, 7027>>,
     <<7040, 7041>>, <<7074, 7077>>, <<7080, 7081>>, <<7083, 7085>>,
     <<7142, 7142>>, <<7144, 7145>>, <<7149, 7149>>, <<7151, 7153>>,
     <<7212, 7219>>, <<7222, 7223>>, <<7288, 7293>>, <<7376, 7378>>,
     <<7380, 7392>>, <<7394, 7400>>, <<7405, 7405>>, <<7412, 7412>>,
     <<7416, 7417>>, <<7468, 7530>>, <<7544, 7544>>, <<7579, 7679>>,
     <<8125, 8125>>, <<8127, 8129>>, <<8141, 8143>>, <<8157, 8159>>,
     <<8173, 8175>>, <<8189, 8190>>, <<8203, 8207>>, <<8216, 8217>>,
     <<8228, 8228>>, <<8231, 8231>>, <<8234, 8238>>, <<8288, 8292>>,
     <<8294, 8303>>, <<8305, 8305>>, <<8319, 8319>>, <<8336, 8348>>,
     <<8400, 8432>>, <<11388, 11389>>, <<11503, 11505>>, <<11631, 11631>>,
     <<11647, 11647>>, <<11744, 11775>>, <<11823, 11823>>, <<12293, 12293>>,
     <<12330, 12333>>, <<12337, 12341>>, <<12347, 12347>>, <<12441, 12446>>,
     <<12540, 12542>>, <<40981, 40981>>, <<42232, 42237>>, <<42508, 42508>>,
     <<42607, 42610>>, <<42612, 42621>>, <<42623, 42623>>, <<42652, 42655>>,
     <<42736, 42737>>, <<42752, 42785>>, <<42864, 42864>>, <<42888, 42890>>,
     <<42994, 42996>>, <<43000, 43001>>, <<43010, 43010>>, <<43014, 43014>>,
     <<43019, 43019>>, <<43045, 43046>>, <<43052, 43052>>, <<43204, 43205>>,
     <<43232, 43249>>, <<43263, 43263>>, <<43302, 43309>>, <<43335, 43345>>,
     <<43392, 43394>>, <<43443, 43443>>, <<43446, 43449>>, <<43452, 43453>>,
     <<43471, 43471>>, <<43493, 43494>>, <<43561, 43566>>, <<43569, 43570>>,
     <<43573, 43574>>, <<43587, 43587>>, <<43596, 43596>>, <<43632, 43632>>,
     <<43644, 43644>>, <<43696, 43696>>, <<43698, 43700>>, <<43703, 43704>>,
     <<43710, 43711>>, <<43713, 43713>>, <<43741, 43741>>, <<43756, 43757>>,
     <<43763, 43764>>, <<43766, 43766>>, <<43867, 43871>>, <<43881, 43883>>,
     <<44005, 44005>>, <<44008, 44008>>, <<44013, 44013>>, <<64286, 64286>>,
     <<64434, 64450>>, <<65024, 65039>>, <<65043, 65043>>, <<65056, 65071>>,
     <<65106, 65106>>, <<65109, 65109>>, <<65279, 65279>>, <<65287, 65287>>,
     <<65294, 65294>>, <<65306, 65306>>, <<65342, 65342>>, <<65344, 65344>>,
     <<65392, 65392>>, <<65438, 65439>>, <<65507, 65507>>, <<65529, 65531>>,
     <<66045, 66045>>, <<66272, 66272>>, <<66422, 66426>>, <<67456, 67461>>,
     <<67463, 67504>>, <<67506, 67514>>, <<68097, 68099>>, <<68101, 68102>>,
     <<68108, 68111>>, <<68152, 68154>>, <<68159, 68159>>, <<68325, 68326>>,
     <<68900, 68903>>, <<69291, 69292>>, <<69446, 69456>>, <<69506, 69509>>,
     <<69633, 69633>>, <<69688, 69702>>, <<69744, 69744>>, <<69747, 69748>>,
     <<69759, 69761>>, <<69811, 69814>>, <<69817, 69818>>, <<69821, 69821>>,
     <<69826, 69826>>, <<69837, 69837>>, <<69888, 69890>>, <<69927, 69931>>,
     <<69933, 69940>>, <<70003, 70003>>, <<70016, 70017>>, <<70070, 70078>>,
     <<70089, 70092>>, <<70095, 70095>>, <<70191, 70193>>, <<70196, 70196>>,
     <<70198, 70199>>, <<70206, 70206>>, <<70367, 70367>>, <<70371, 70378>>,
     <<70400, 70401>>, <<70459, 70460>>, <<70464, 70464>>, <<70502, 70508>>,
     <<70512, 70516>>, <<70712, 70719>>, <<70722, 70724>>, <<70726, 70726>>,
     <<70750, 70750>>, <<70835, 70840>>, <<70842, 70842>>, <<70847, 70848>>,
     <<70850, 70851>>, <<71090, 71093>>, <<71100, 71101>>, <<71103, 71104>>,
     <<71132, 71133>>, <<71219, 71226>>, <<71229, 71229>>, <<71231, 71232>>,
     <<71339, 71339>>, <<71341, 71341>>, <<71344, 71349>>, <<71351, 71351>>,
     <<71453, 71455>>, <<71458, 71461>>, <<71463, 71467>>, <<71727, 71735>>,
     <<71737, 71738>>, <<71995, 71996>>, <<71998, 71998>>, <<72003, 72003>>,
     <<72148, 72151>>, <<72154, 72155>>, <<72160, 72160>>, <<72193, 72202>>,
     <<72243, 72248>>, <<72251, 72254>>, <<72263, 72263>>, <<72273, 72278>>,
     <<72281, 72283>>, <<72330, 72342>>, <<72344, 72345>>, <<72752, 72758>>,
     <<72760, 72765>>, <<72767, 72767>>, <<72850, 72871>>, <<72874, 72880>>,
     <<72882, 72883>>, <<72885, 72886>>, <<73009, 73014>>, <<73018, 73018>>,
     <<73020, 73021>>, <<73023, 73029>>, <<73031, 73031>>, <<73104, 73105>>,
     <<73109, 73109>>, <<73111, 73111>>, <<73459, 73460>>, <<78896, 78904>>,
     <<92912, 92916>>, <<92976, 92982>>, <<92992, 92995>>, <<94031, 94031>>,
     <<94095, 94111>>, <<94176, 94177>>, <<94179, 94180>>, <<110576, 110579>>,
     <<110581, 110587>>, <<110589, 110590>>, <<113821, 113822>>, <<113824, 113827>>,
     <<118528, 118573>>, <<118576, 118598>>, <<119143, 119145>>, <<119155, 119170>>,
     <<119173, 119179>>, <<119210, 119213>>, <<119362, 119364>>, <<121344, 121398>>,
     <<121403, 121452>>, <<121461, 121461>>, <<121476, 121476>>, <<121499, 121503>>,
     <<121505, 121519>>, <<122880, 122886>>, <<122888, 122904>>, <<122907, 122913>>,
     <<122915, 122916>>, <<122918, 122922>>, <<123184, 123197>>, <<123566, 123566>>,
     <<123628, 123631>>, <<125136, 125142>>, <<125252, 125259>>, <<127995, 127999>>,
     <<917505, 917505>>, <<917536, 917631>>, <<917760, 917999>>}

IsCaseIgnorable(ch) ==
    \E r \in CaseIgnorableRanges : ch >= r[1] /\ ch <= r[2]

\* for a code point that is not case-ignorable
IsCased(ch) == \E r \in CasedRanges : ch >= r[1] /\ ch <= r[2]

\* the capital sigma at s[i] ends a word: the nearest code point before it
\* that is not case-ignorable is cased, and the nearest one after it, if
\* any, is not
FinalSigma(s, i) ==
    LET before == {j \in 1..(i - 1) : ~IsCaseIgnorable(s[j])}
        after == {j \in (i + 1)..Len(s) : ~IsCaseIgnorable(s[j])}
    IN  /\ before # {}
        /\ IsCased(s[CHOOSE j \in before : \A l \in before : l <= j])
        /\ \/ after = {}
           \/ ~IsCased(s[CHOOSE j \in after : \A l \in after : j <= l])

\* the lower case of s[i]: capital sigma by its place, capital I with dot
\* as two code points, the others by LowerRuns
LowerAt(s, i) ==
    IF s[i] = 931 THEN IF FinalSigma(s, i) THEN <<962>> ELSE <<963>>
    ELSE IF s[i] = 304 THEN <<105, 775>>
    ELSE LET hit == {r \in LowerRuns :
                        /\ s[i] >= r[1]
                        /\ s[i] <= r[2]
                        /\ (s[i] - r[1]) % r[3] = 0}
         IN  IF hit = {} THEN <<s[i]>>
             ELSE <<s[i] + (CHOOSE r \in hit : TRUE)[4]>>

\* the lower case of s[a..b], by halves so that the evaluation stays shallow
RECURSIVE LowerRange(_, _, _)
LowerRange(s, a, b) ==
    IF a > b THEN <<>>
    ELSE IF a = b THEN LowerAt(s, a)
    ELSE LowerRange(s, a, (a + b) \div 2)
             \o LowerRange(s, ((a + b) \div 2) + 1, b)

\* str.lower()
lower(s) == LowerRange(s, 1, Len(s))

\* int(s) for the text of an input line.  The code points int() skips around
\* the number, and the code points of the digit 0 of every decimal script it
\* reads (the nine after each are its 1 to 9)
IntSpaces ==
    (9 .. 13) \cup {32, 133, 160, 5760} \cup (8192 .. 8202)
        \cup {8232, 8233, 8239, 8287, 12288}

DecimalZeros ==
    {48, 1632, 1776, 1984, 2406, 2534, 2662, 2790, 2918, 3046, 3174, 3302,
     3430, 3558, 3664, 3792, 3872, 4160, 4240, 6112, 6160, 6470, 6608, 6784,
     6800, 6992, 7088, 7232, 7248, 42528, 43216, 43264, 43472, 43504, 43600,
     44016, 65296, 66720, 68912, 69734, 69872, 69942, 70096, 70384, 70736,
     70864, 71248, 71360, 71472, 71904, 72016, 72784, 73040, 73120, 92768,
     92864, 93008, 120782, 120792, 120802, 120812, 120822, 123200, 123632,
     125264, 130032}

IsDigit(ch) == \E z \in DecimalZeros : ch >= z /\ ch <= z + 9

DigitOf(ch) == ch - (CHOOSE z \in DecimalZeros : ch >= z /\ ch <= z + 9)

\* the value of the digits s[a..b] after the digits of value acc, by halves
\* so that the evaluation stays shallow; a "_" adds nothing.  The value is
\* never negative: the test on `left` has the first half computed before the
\* second one starts
RECURSIVE DigitsFold(_, _, _, _)
DigitsFold(s, a, b, acc) ==
    IF a > b THEN acc
    ELSE IF a = b
    THEN IF s[a] = 95 THEN acc ELSE acc * 10 + DigitOf(s[a])
    ELSE LET left == DigitsFold(s, a, (a + b) \div 2, acc)
         IN  IF left >= 0
             THEN DigitsFold(s, ((a + b) \div 2) + 1, b, left)
             ELSE left

\* the value of digits, which may have one "_" between two of them
DigitsValue(s, k, acc) == DigitsFold(s, k, Len(s), acc)

\* sys.get_int_max_str_digits(): int() raises ValueError on more digits
INT_MAX_STR_DIGITS == 4300

IsDigits(s) ==
    /\ Len(s) >= 1
    /\ IsDigit(s[1])
    /\ IsDigit(s[Len(s)])
    /\ \A k \in DOMAIN s : IsDigit(s[k]) \/ s[k] = 95
    /\ \A k \in 1..(Len(s) - 1) : ~(s[k] = 95 /\ s[k + 1] = 95)
    /\ Cardinality({k \in DOMAIN s : s[k] # 95}) <= INT_MAX_STR_DIGITS

\* the text without the spaces before and after it
Strip(s) ==
    LET inked == {k \in DOMAIN s : s[k] \notin IntSpaces}
    IN  IF inked = {} THEN <<>>
        ELSE LET first == CHOOSE k \in inked : \A l \in inked : k <= l
                 last == CHOOSE k \in inked : \A l \in inked : k >= l
             IN  SubSeq(s, first, last)

\* spaces, an optional sign, digits, spaces; any other text raises
\* ValueError (ok = FALSE)
ParseInt(s) ==
    LET t == Strip(s)
    IN  IF IsDigits(t) THEN [ok |-> TRUE, value |-> DigitsValue(t, 1, 0)]
        ELSE IF Len(t) >= 2 /\ t[1] = 43 /\ IsDigits(Tail(t))
        THEN [ok |-> TRUE, value |-> DigitsValue(Tail(t), 1, 0)]
        ELSE IF Len(t) >= 2 /\ t[1] = 45 /\ IsDigits(Tail(t))
        THEN [ok |-> TRUE, value |-> 0 - DigitsValue(Tail(t), 1, 0)]
        ELSE [ok |-> FALSE, value |-> 0]

\* class Controller.Commands, by value
CMD_REVEAL == <<114, 101, 118, 101, 97, 108>>       \* "reveal"
CMD_FLAG == <<102, 108, 97, 103>>                   \* "flag"
CMD_UNFLAG == <<117, 110, 102, 108, 97, 103>>       \* "unflag"
CMD_NEW == <<110, 101, 119>>                        \* "new"
CMD_RESET == <<114, 101, 115, 101, 116>>            \* "reset"
CMD_QUIT == <<113, 117, 105, 116>>                  \* "quit"

\* the default of Controller.mode is the enum member Commands.REVEAL, which
\* is equal to no str
ENUM_REVEAL == <<"Commands.REVEAL">>

---------------------------------------------------------------------------
(* class Controller: c is the record of the controller's fields *)

\* build_new_game with the first MAX_MINE_COUNT of the source, 668, which the
\* source overwrites
build_new_game_668(c, width, height, num_mines, draws) ==
    IF /\ width >= 9 /\ width <= 30 /\ height >= 9 /\ height <= 24
       /\ num_mines >= 10 /\ num_mines <= 668
    THEN LET made == NewBoard(width, height, num_mines, draws)
         IN  [ok |-> made.ok,
              c |-> [c EXCEPT !.board = made.board,
                              !.mines_left = num_mines,
                              !.current_state = PLAYING]]
    ELSE [ok |-> TRUE, c |-> [c EXCEPT !.board = None]]

\* build_new_game
build_new_game(c, width, height, num_mines, draws) ==
    LET MIN_BOARD_WIDTH == 9
        MAX_BOARD_WIDTH == 30
        MIN_BOARD_HEIGHT == 9
        MAX_BOARD_HEIGHT == 24
        MIN_MINE_COUNT == 10
        MAX_MINE_COUNT == (width - 1) * (height - 1)
    IN  IF /\ width >= MIN_BOARD_WIDTH /\ width <= MAX_BOARD_WIDTH
           /\ height >= MIN_BOARD_HEIGHT /\ height <= MAX_BOARD_HEIGHT
           /\ num_mines >= MIN_MINE_COUNT /\ num_mines <= MAX_MINE_COUNT
        THEN LET made == NewBoard(width, height, num_mines, draws)
             IN  [ok |-> made.ok,
                  c |-> [c EXCEPT !.board = made.board,
                                  !.mines_left = num_mines,
                                  !.current_state = PLAYING]]
        ELSE [ok |-> TRUE, c |-> [c EXCEPT !.board = None]]

\* reset_game
reset_game(c) ==
    [c EXCEPT !.board = reset(c.board),
              !.mines_left = c.board.number_of_mines,
              !.flagged_locations = {},
              !.current_state = PLAYING]

\* convert_move_to_xy
DecodeChar(ch) ==
    IF ch >= 48 /\ ch <= 57 THEN ch - 48 ELSE ch - 97 + 10

convert_move_to_xy(move) == <<DecodeChar(move[1]), DecodeChar(move[2])>>

\* check_win
check_win(c) ==
    LET flagged_mines == c.flagged_locations \cap c.board.mine_locations
    IN  Cardinality(flagged_mines) = Cardinality(c.board.mine_locations)

validate_input_length(move) == Len(move) = 2

\* move_reveal that declares the win once no cell without a mine is hidden
move_reveal_wins(c, x, y) ==
    IF is_revealed(c.board, x, y) THEN c
    ELSE IF is_flagged(c.board, x, y) THEN c
    ELSE IF get_cell_character(c.board, x, y) = MINE
    THEN [c EXCEPT !.board = reveal_all_mines(c.board),
                   !.current_state = PLAYER_LOST]
    ELSE LET b1 == reveal_cell(c.board, x, y)
         IN  IF \A i \in DOMAIN b1.cells :
                    b1.cells[i].character = MINE \/ b1.cells[i].revealed
             THEN [c EXCEPT !.board = b1, !.current_state = PLAYER_WON]
             ELSE [c EXCEPT !.board = b1]

\* move_reveal that shows the mine it hits and lets the game go on
move_reveal_survives(c, x, y) ==
    IF is_revealed(c.board, x, y) THEN c
    ELSE IF is_flagged(c.board, x, y) THEN c
    ELSE [c EXCEPT !.board = reveal_cell(c.board, x, y)]

\* process_move, the branch of mode "reveal"
move_reveal(c, x, y) ==
    IF is_revealed(c.board, x, y) THEN c
    ELSE IF is_flagged(c.board, x, y) THEN c
    ELSE IF get_cell_character(c.board, x, y) = MINE
    THEN [c EXCEPT !.board = reveal_all_mines(c.board),
                   !.current_state = PLAYER_LOST]
    ELSE [c EXCEPT !.board = reveal_cell(c.board, x, y)]

\* move_flag that flags a flagged cell again
move_flag_again(c, x, y) ==
    IF is_revealed(c.board, x, y) THEN c
    ELSE LET c1 == [c EXCEPT !.board = flag_cell(c.board, x, y),
                             !.flagged_locations = @ \cup {<<x, y>>},
                             !.mines_left = @ - 1]
         IN  IF check_win(c1)
             THEN [c1 EXCEPT !.current_state = PLAYER_WON]
             ELSE c1

\* process_move, the branch of mode "flag"
move_flag(c, x, y) ==
    IF is_revealed(c.board, x, y) THEN c
    ELSE IF is_flagged(c.board, x, y) THEN c
    ELSE LET c1 == [c EXCEPT !.board = flag_cell(c.board, x, y),
                             !.flagged_locations = @ \cup {<<x, y>>},
                             !.mines_left = @ - 1]
         IN  IF check_win(c1)
             THEN [c1 EXCEPT !.current_state = PLAYER_WON]
             ELSE c1

\* move_unflag that leaves the counter as it is
move_unflag_uncounted(c, x, y) ==
    IF is_revealed(c.board, x, y) THEN c
    ELSE IF is_flagged(c.board, x, y)
    THEN [c EXCEPT !.board = unflag_cell(c.board, x, y)]
    ELSE c

\* process_move, the branch of mode "unflag"
move_unflag(c, x, y) ==
    IF is_revealed(c.board, x, y) THEN c
    ELSE IF is_flagged(c.board, x, y)
    THEN [c EXCEPT !.board = unflag_cell(c.board, x, y),
                   !.mines_left = @ + 1]
    ELSE c

\* process_move
process_move(c, x, y) ==
    IF c.mode = CMD_REVEAL THEN move_reveal(c, x, y)
    ELSE IF c.mode = CMD_FLAG THEN move_flag(c, x, y)
    ELSE IF c.mode = CMD_UNFLAG THEN move_unflag(c, x, y)
    ELSE c

\* process_command that starts a new game on any text it does not know
process_command_else_new(c, command, move) ==
    LET cmd == lower(command)
    IN  IF cmd = CMD_REVEAL \/ cmd = CMD_FLAG \/ cmd = CMD_UNFLAG
        THEN LET c1 == [c EXCEPT !.mode = cmd]
             IN  IF validate_input_length(move)
                 THEN LET move_position == convert_move_to_xy(move)
                      IN  IF /\ move_position[1] >= 0
                             /\ move_position[1] < c.board.width
                             /\ move_position[2] >= 0
                             /\ move_position[2] < c.board.height
                          THEN process_move(c1, move_position[1], move_position[2])
                          ELSE c1
                 ELSE c1
        ELSE IF cmd = CMD_NEW THEN [c EXCEPT !.current_state = NEW_GAME]
        ELSE IF cmd = CMD_RESET THEN [c EXCEPT !.current_state = RESET]
        ELSE IF cmd = CMD_QUIT THEN [c EXCEPT !.current_state = PLAYER_QUIT]
        ELSE [c EXCEPT !.current_state = NEW_GAME]

\* process_command that lets x = width through the bounds check
process_command_edge(c, command, move) ==
    LET cmd == lower(command)
    IN  IF cmd = CMD_REVEAL \/ cmd = CMD_FLAG \/ cmd = CMD_UNFLAG
        THEN LET c1 == [c EXCEPT !.mode = cmd]
             IN  IF validate_input_length(move)
                 THEN LET move_position == convert_move_to_xy(move)
                      IN  IF /\ move_position[1] >= 0
                             /\ move_position[1] <= c.board.width
                             /\ move_position[2] >= 0
                             /\ move_position[2] < c.board.height
                          THEN process_move(c1, move_position[1], move_position[2])
                          ELSE c1
                 ELSE c1
        ELSE IF cmd = CMD_NEW THEN [c EXCEPT !.current_state = NEW_GAME]
        ELSE IF cmd = CMD_RESET THEN [c EXCEPT !.current_state = RESET]
        ELSE IF cmd = CMD_QUIT THEN [c EXCEPT !.current_state = PLAYER_QUIT]
        ELSE c

\* process_command: `command` is the text get_command returned, `move` the
\* text get_move returns when it is asked
process_command(c, command, move) ==
    LET cmd == lower(command)
    IN  IF cmd = CMD_REVEAL \/ cmd = CMD_FLAG \/ cmd = CMD_UNFLAG
        THEN LET c1 == [c EXCEPT !.mode = cmd]
             IN  IF validate_input_length(move)
                 THEN LET move_position == convert_move_to_xy(move)
                      IN  IF /\ move_position[1] >= 0
                             /\ move_position[1] < c.board.width
                             /\ move_position[2] >= 0
                             /\ move_position[2] < c.board.height
                          THEN process_move(c1, move_position[1], move_position[2])
                          ELSE c1
                 ELSE c1
        ELSE IF cmd = CMD_NEW THEN [c EXCEPT !.current_state = NEW_GAME]
        ELSE IF cmd = CMD_RESET THEN [c EXCEPT !.current_state = RESET]
        ELSE IF cmd = CMD_QUIT THEN [c EXCEPT !.current_state = PLAYER_QUIT]
        ELSE c

\* get_command: an empty line stands for "reveal"
get_command(line) == IF line = <<>> THEN CMD_REVEAL ELSE line

\* new_game_pass that replaces by its default only the answers that do not
\* parse
new_game_pass_partial(c, width_line, height_line, mines_line, draws1, draws2) ==
    LET w == ParseInt(width_line)
        h == ParseInt(height_line)
        n == ParseInt(mines_line)
    IN  IF w.ok /\ h.ok /\ n.ok
        THEN LET first == build_new_game(c, w.value, h.value, n.value, draws1)
                 second == build_new_game(first.c, w.value, h.value, n.value, draws2)
             IN  [ok |-> first.ok /\ second.ok, c |-> second.c]
        ELSE build_new_game(c,
                 IF w.ok THEN w.value ELSE DEFAULT_BOARD_WIDTH,
                 IF h.ok THEN h.value ELSE DEFAULT_BOARD_HEIGHT,
                 IF n.ok THEN n.value ELSE DEFAULT_MINE_COUNT, draws2)

\* process_new_game, one pass of its while loop: the three input lines and
\* the draws of the (at most two) boards it builds
new_game_pass(c, width_line, height_line, mines_line, draws1, draws2) ==
    LET w == ParseInt(width_line)
        h == ParseInt(height_line)
        n == ParseInt(mines_line)
    IN  IF w.ok /\ h.ok /\ n.ok
        THEN \* try: build_new_game; finally: build_new_game again
             LET first == build_new_game(c, w.value, h.value, n.value, draws1)
                 second == build_new_game(first.c, w.value, h.value, n.value, draws2)
             IN  [ok |-> first.ok /\ second.ok, c |-> second.c]
        ELSE \* except ValueError: the defaults; finally: build_new_game
             build_new_game(c, DEFAULT_BOARD_WIDTH, DEFAULT_BOARD_HEIGHT,
                            DEFAULT_MINE_COUNT, draws2)

\* process_win that ends the run instead of returning to the menu
process_win_exit(c) == [c EXCEPT !.current_state = PLAYER_QUIT]

\* process_win
process_win(c) == [c EXCEPT !.current_state = MENU]

\* process_loss that puts the finished game back into play
process_loss_replay(c) ==
    [c EXCEPT !.board = reveal_all_mines(c.board), !.current_state = PLAYING]

\* process_loss
process_loss(c) ==
    [c EXCEPT !.board = reveal_all_mines(c.board), !.current_state = MENU]

\* menu_pass that lowers the line as process_command does
menu_pass_lower(c, command) ==
    IF lower(command) = CMD_NEW \/ command = <<>>
    THEN [c EXCEPT !.current_state = NEW_GAME]
    ELSE IF lower(command) = CMD_QUIT
    THEN [c EXCEPT !.current_state = PLAYER_QUIT]
    ELSE c

\* process_menu, one pass of its while loop on one input line
menu_pass(c, command) ==
    IF command = CMD_NEW \/ command = <<>>
    THEN [c EXCEPT !.current_state = NEW_GAME]
    ELSE IF command = CMD_QUIT
    THEN [c EXCEPT !.current_state = PLAYER_QUIT]
    ELSE c

---------------------------------------------------------------------------
(* The state machine of Controller.run *)

ctl ==
    [board |-> board, current_state |-> current_state, mode |-> mode,
     mines_left |-> mines_left, flagged_locations |-> flagged_locations]

Becomes(c) ==
    /\ board' = c.board
    /\ current_state' = c.current_state
    /\ mode' = c.mode
    /\ mines_left' = c.mines_left
    /\ flagged_locations' = c.flagged_locations

\* Controller(): the fields' defaults, with a default Board()
Constructed(draws) ==
    LET made == NewBoard(DEFAULT_BOARD_WIDTH, DEFAULT_BOARD_HEIGHT,
                         DEFAULT_MINE_COUNT, draws)
    IN  /\ made.ok
        /\ board = made.board
        /\ current_state = MENU
        /\ mode = ENUM_REVEAL
        /\ mines_left = Unset
        /\ flagged_locations = {}

ProcessMenu(command) ==
    /\ current_state = MENU
    /\ Becomes(menu_pass(ctl, command))

ProcessNewGame(width_line, height_line, mines_line, draws1, draws2) ==
    /\ current_state = NEW_GAME
    /\ LET pass == new_game_pass(ctl, width_line, height_line, mines_line,
                                 draws1, draws2)
       IN  pass.ok /\ Becomes(pass.c)

ResetGame ==
    /\ current_state = RESET
    /\ Becomes(reset_game(ctl))

ProcessPlaying(line, move) ==
    /\ current_state = PLAYING
    /\ Becomes(process_command(ctl, get_command(line), move))

ProcessWin ==
    /\ current_state = PLAYER_WON
    /\ Becomes(process_win(ctl))

ProcessLoss ==
    /\ current_state = PLAYER_LOST
    /\ Becomes(process_loss(ctl))

---------------------------------------------------------------------------
(* Inputs.  Text(x, y) is the two-digit position token of cell (x, y) *)

Text(x, y) == <<48 + x, 48 + y>>

\* draws that run down columns 0, 4 and 8 of the board, the first one drawn
\* twice
ColumnDraws ==
    << <<0, 0>> >> \o [i \in 1..27 |-> <<4 * ((i - 1) \div 9), (i - 1) % 9>>]

\* draws that run along the rows of the top-left 9 x 9 cells, the first one
\* drawn twice
RowDraws ==
    << <<0, 0>> >> \o [i \in 1..81 |-> <<(i - 1) % 9, (i - 1) \div 9>>]

\* the same, never drawing cell (1, 0)
RowDrawsSkip == SelectSeq(RowDraws, LAMBDA d : d # <<1, 0>>)

---------------------------------------------------------------------------
(* Spec: games on a 9 x 9 board with 27 mines in columns 0, 4 and 8, played *)
(* with every command on four cells of row 0: a mine, a number, and one    *)
(* empty cell of each of the two empty columns.                            *)

\* "new", the empty line, "quit", "NEW", "x"
MenuLines == {CMD_NEW, <<>>, CMD_QUIT, <<78, 69, 87>>, <<120>>}

\* "9", "8", "31" / "9", "8", "25" / "27", "9", "65"
WidthLines == {<<57>>, <<56>>, <<51, 49>>}
HeightLines == {<<57>>, <<56>>, <<50, 53>>}
MinesLines == {<<50, 55>>, <<57>>, <<54, 53>>}

\* the six commands, the empty line, "FLAG" and "x"
CommandLines ==
    {CMD_REVEAL, CMD_FLAG, CMD_UNFLAG, CMD_NEW, CMD_RESET, CMD_QUIT,
     <<>>, <<70, 76, 65, 71>>, <<120>>}

\* a mine, a number, and an empty cell of each empty column
PlayCells == {<<0, 0>>, <<1, 0>>, <<2, 0>>, <<6, 0>>}

\* the tokens of PlayCells; then "99", "0", "A0"
MoveLines ==
    {Text(p[1], p[2]) : p \in PlayCells}
        \cup {<<57, 57>>, <<48>>, <<65, 48>>}

Init == Constructed(ColumnDraws)

Next ==
    \/ \E line \in MenuLines : ProcessMenu(line)
    \/ \E w \in WidthLines, h \in HeightLines, n \in MinesLines :
           ProcessNewGame(w, h, n, ColumnDraws, ColumnDraws)
    \/ ResetGame
    \/ \E line \in CommandLines, move \in MoveLines : ProcessPlaying(line, move)
    \/ ProcessLoss

Spec == Init /\ [][Next]_vars

---------------------------------------------------------------------------
(* SpecFlag: games on a 9 x 9 board with the 10 mines in its first rows,   *)
(* played with flag on the first FlagCells cells and unflag on the first   *)
(* UnflagCells cells, up to the win and the games after it.                *)

FlagCells == 11
UnflagCells == 1

FirstCells(n) == {<<i % 9, i \div 9>> : i \in 0..(n - 1)}

FlagDraws == {RowDraws, RowDrawsSkip}

InitFlag == Constructed(RowDraws)

NextFlag ==
    \/ \E line \in {CMD_NEW, CMD_QUIT} : ProcessMenu(line)
    \/ \E draws1 \in FlagDraws, draws2 \in FlagDraws :
           ProcessNewGame(<<57>>, <<57>>, <<49, 48>>, draws1, draws2)
    \/ \E p \in FirstCells(FlagCells) :
           ProcessPlaying(CMD_FLAG, Text(p[1], p[2]))
    \/ \E p \in FirstCells(UnflagCells) :
           ProcessPlaying(CMD_UNFLAG, Text(p[1], p[2]))
    \/ ProcessWin

SpecFlag == InitFlag /\ [][NextFlag]_vars

---------------------------------------------------------------------------
(* SpecSetup: the new-game setup with answers at and around the bounds it   *)
(* checks, from the menu and from games in play.                           *)

\* "8", "9", "30", "31", "-9"
SetupWidthLines == {<<56>>, <<57>>, <<51, 48>>, <<51, 49>>, <<45, 57>>}
\* "8", "9", "24", "25"
SetupHeightLines == {<<56>>, <<57>>, <<50, 52>>, <<50, 53>>}
\* "9", "10", "64", "65"
SetupMinesLines == {<<57>>, <<49, 48>>, <<54, 52>>, <<54, 53>>}

\* "184", "185": the mine counts at the bound of a 9 x 24 board
TallMinesLines == {<<49, 56, 52>>, <<49, 56, 53>>}

\* the answers to the three prompts: each one moved over its bounds while
\* the other two stay at their least; the 9 x 24 board at its most mines;
\* the largest board with "10" and with "668" mines
SetupLines ==
    {<<w, <<57>>, <<49, 48>>>> : w \in SetupWidthLines}
        \cup {<<<<57>>, h, <<49, 48>>>> : h \in SetupHeightLines}
        \cup {<<<<57>>, <<57>>, n>> : n \in SetupMinesLines}
        \cup {<<<<57>>, <<50, 52>>, n>> : n \in TallMinesLines}
        \cup {<<<<51, 48>>, <<50, 52>>, n>> : n \in {<<49, 48>>, <<54, 54, 56>>}}

\* draws that run along the rows of a 9 x 24 board
TallDraws == [i \in 1..216 |-> <<(i - 1) % 9, (i - 1) \div 9>>]

\* draws that fit the board the answers ask for
SetupDraws(t) == IF t[3] \in TallMinesLines THEN TallDraws ELSE RowDraws

InitSetup == Constructed(RowDraws)

NextSetup ==
    \/ \E line \in {CMD_NEW, CMD_QUIT} : ProcessMenu(line)
    \/ \E t \in SetupLines :
           ProcessNewGame(t[1], t[2], t[3], SetupDraws(t), SetupDraws(t))
    \/ \E line \in {CMD_FLAG, CMD_NEW, CMD_QUIT},
          move \in {Text(0, 0), Text(8, 8)} :
           ProcessPlaying(line, move)

SpecSetup == InitSetup /\ [][NextSetup]_vars

---------------------------------------------------------------------------
(* SpecToken: games on a 12 x 9 board with 64 mines in its first nine     *)
(* columns, played with reveal, flag and unflag on position tokens of      *)
(* every kind: in the board, at and past its edges, upper case, too short, *)
(* too long, and with characters that are neither digits nor letters; a    *)
(* lost game is followed by the menu and the next game.                    *)

\* "93", "a3", "b8": cells (9,3), (10,3), (11,8)
InsideTokens == {<<57, 51>>, <<97, 51>>, <<98, 56>>}
\* "c0", "09", "zz": x = width, y = height, both far outside
OutsideTokens == {<<99, 48>>, <<48, 57>>, <<122, 122>>}
\* "A3", "X0"
UpperTokens == {<<65, 51>>, <<88, 48>>}
\* "0", "123"
WrongLengthTokens == {<<48>>, <<49, 50, 51>>}
\* "!0", "_2", "{0", "0 "
WrongCharTokens == {<<33, 48>>, <<95, 50>>, <<123, 48>>, <<48, 32>>}

TokenLines ==
    InsideTokens \cup OutsideTokens \cup UpperTokens
        \cup WrongLengthTokens \cup WrongCharTokens

InitToken == Constructed(RowDraws)

NextToken ==
    \/ ProcessMenu(CMD_NEW)
    \/ ProcessNewGame(<<49, 50>>, <<57>>, <<54, 52>>, RowDraws, RowDraws)
    \/ \E line \in {CMD_REVEAL, CMD_FLAG, CMD_UNFLAG}, move \in TokenLines :
           ProcessPlaying(line, move)
    \/ ProcessLoss

SpecToken == InitToken /\ [][NextToken]_vars

---------------------------------------------------------------------------
(* SpecEnd: games on a 9 x 9 board with the 10 mines in its first rows,    *)
(* in which the player flags the mines in row order, or reveals the last   *)
(* of them, or quits; with the steps out of Won and Lost and the games     *)
(* after them.                                                             *)

\* the mines of the board in row order: (0,0) .. (8,0), (0,1)
EndMines == [i \in 1..10 |-> <<(i - 1) % 9, (i - 1) \div 9>>]

\* the mines not flagged yet
EndToFlag == {i \in DOMAIN EndMines : ~is_flagged(board, EndMines[i][1], EndMines[i][2])}

\* "quit", "QUIT", "x"
EndLines == {CMD_QUIT, <<81, 85, 73, 84>>, <<120>>}

InitEnd == Constructed(RowDraws)

NextEnd ==
    \/ \E line \in {CMD_NEW} \cup EndLines : ProcessMenu(line)
    \/ ProcessNewGame(<<57>>, <<57>>, <<49, 48>>, RowDraws, RowDraws)
    \/ /\ current_state = PLAYING
       /\ \E i \in EndToFlag :
              /\ \A j \in EndToFlag : i <= j
              /\ ProcessPlaying(CMD_FLAG, Text(EndMines[i][1], EndMines[i][2]))
    \/ ProcessPlaying(CMD_REVEAL, Text(0, 1))
    \/ \E line \in EndLines : ProcessPlaying(line, Text(0, 0))
    \/ ProcessWin
    \/ ProcessLoss

SpecEnd == InitEnd /\ [][NextEnd]_vars

---------------------------------------------------------------------------
(* SpecFallback: the new-game setup with answers that int() accepts and    *)
(* answers on which it raises ValueError, from the menu and from games in  *)
(* play on 12 x 9 and on 9 x 9 boards.                                     *)

\* answers int() accepts: "12" "9" "20", " 12 " "9" "+20", and the refused
\* "8" "9" "10"
IntSetupLines ==
    { << <<49, 50>>, <<57>>, <<50, 48>> >>,
      << <<32, 49, 50, 32>>, <<57>>, <<43, 50, 48>> >>,
      << <<56>>, <<57>>, <<49, 48>> >> }

\* answers with one that raises ValueError: "x" "9" "10", "12" "" "20",
\* "12" "9" "9.5", "12" "24" "2o"
NonIntSetupLines ==
    { << <<120>>, <<57>>, <<49, 48>> >>,
      << <<49, 50>>, <<>>, <<50, 48>> >>,
      << <<49, 50>>, <<57>>, <<57, 46, 53>> >>,
      << <<49, 50>>, <<50, 52>>, <<50, 111>> >> }

\* "00", "10" and "b0": cells (0,0), (1,0) and (11,0)
FallbackTokens == {<<48, 48>>, <<49, 48>>, <<98, 48>>}

InitFallback == Constructed(RowDraws)

NextFallback ==
    \/ \E line \in {CMD_NEW, CMD_QUIT} : ProcessMenu(line)
    \/ \E t \in IntSetupLines \cup NonIntSetupLines :
           ProcessNewGame(t[1], t[2], t[3], RowDraws, RowDraws)
    \/ \E line \in {CMD_FLAG, CMD_UNFLAG, CMD_NEW, CMD_QUIT},
          move \in FallbackTokens :
           ProcessPlaying(line, move)

SpecFallback == InitFallback /\ [][NextFallback]_vars

---------------------------------------------------------------------------
(* SpecCount: games on a 9 x 9 board with the 10 mines in its first rows,  *)
(* up to the win and up to the loss: the player flags the mines in row     *)
(* order and takes the last flag back, flags and unflags the number (1,1), *)
(* reveals the last mine or the empty cell (8,8), resets, and starts new   *)
(* games.                                                                  *)

\* the mines that are flagged
CountFlagged == DOMAIN EndMines \ EndToFlag

\* "reset", "new", "quit"
CountLines == {CMD_RESET, CMD_NEW, CMD_QUIT}

InitCount == Constructed(RowDraws)

NextCount ==
    \/ \E line \in {CMD_NEW, CMD_QUIT} : ProcessMenu(line)
    \/ ProcessNewGame(<<57>>, <<57>>, <<49, 48>>, RowDraws, RowDraws)
    \/ /\ current_state = PLAYING
       /\ \E i \in EndToFlag :
              /\ \A j \in EndToFlag : i <= j
              /\ ProcessPlaying(CMD_FLAG, Text(EndMines[i][1], EndMines[i][2]))
    \/ /\ current_state = PLAYING
       /\ \E i \in CountFlagged :
              /\ \A j \in CountFlagged : j <= i
              /\ ProcessPlaying(CMD_UNFLAG, Text(EndMines[i][1], EndMines[i][2]))
    \/ \E line \in {CMD_FLAG, CMD_UNFLAG} : ProcessPlaying(line, Text(1, 1))
    \/ \E move \in {Text(0, 1), Text(8, 8)} : ProcessPlaying(CMD_REVEAL, move)
    \/ \E line \in CountLines : ProcessPlaying(line, Text(0, 0))
    \/ ResetGame
    \/ ProcessWin
    \/ ProcessLoss

SpecCount == InitCount /\ [][NextCount]_vars

---------------------------------------------------------------------------
(* SpecBoard: every Board of the sizes BoardDims with up to MaxDraws mines *)
(* and every sequence of MaxDraws draws that places them, and on it any    *)
(* sequence of reveal_cell calls on unrevealed cells without a mine.       *)

BoardDims == {<<3, 3>>, <<5, 2>>}
MaxDraws == 3

InitBoard ==
    \E d \in BoardDims, n \in 0..MaxDraws :
        \E draws \in [1..MaxDraws -> (0..(d[1] - 1)) \X (0..(d[2] - 1))] :
            LET made == NewBoard(d[1], d[2], n, draws)
            IN  /\ n <= (d[1] - 1) * (d[2] - 1)
                /\ made.ok
                /\ board = made.board
                /\ current_state = MENU
                /\ mode = ENUM_REVEAL
                /\ mines_left = Unset
                /\ flagged_locations = {}

BoardReveal(x, y) ==
    /\ InBoard(board, x, y)
    /\ ~is_revealed(board, x, y)
    /\ get_cell_character(board, x, y) # MINE
    /\ board' = reveal_cell(board, x, y)
    /\ UNCHANGED <<current_state, mode, mines_left, flagged_locations>>

NextBoard == \E x \in 0..4, y \in 0..2 : BoardReveal(x, y)

SpecBoard == InitBoard /\ [][NextBoard]_vars

\* ------------------------------------------------------------------------
\* Properties
\* ------------------------------------------------------------------------

\* The coordinates of a board, and the sets its cells define
Coords(b) == (0 .. (b.width - 1)) \X (0 .. (b.height - 1))

CellAt(b, p) == b.cells[p[2] * b.width + p[1]]

MineCells(b) == {p \in Coords(b) : CellAt(b, p).character = MINE}

RevealedCells(b) == {p \in Coords(b) : CellAt(b, p).revealed}

FlaggedCells(b) == {p \in Coords(b) : CellAt(b, p).flagged}

SafeCells(b) == Coords(b) \ MineCells(b)

Touching(p, q) ==
    /\ p # q
    /\ p[1] - q[1] \in {-1, 0, 1}
    /\ p[2] - q[2] \in {-1, 0, 1}

\* The 8-connected region of Empty cells around an Empty cell, as a fixpoint
RECURSIVE EmptyRegion(_, _)
EmptyRegion(b, region) ==
    LET more == {q \in Coords(b) :
                    /\ CellAt(b, q).character = EMPTY_SPACE
                    /\ \E p \in region : Touching(p, q)}
    IN  IF more \subseteq region THEN region
        ELSE EmptyRegion(b, region \cup more)

\* What the reveal of the hidden cell p, which has no mine, is to reveal
RevealSet(b, p) ==
    IF CellAt(b, p).character # EMPTY_SPACE THEN {p}
    ELSE LET region == EmptyRegion(b, {p})
         IN  region \cup {q \in Coords(b) :
                             /\ CellAt(b, q).character \notin {EMPTY_SPACE, MINE}
                             /\ \E r \in region : Touching(r, q)}

\* The lines that give the reveal command: the word, and the empty line
RevealLines == {CMD_REVEAL, <<>>}

\* C1: a flag command that flags a cell in Playing moves the controller to
\* Won exactly when the flagged set it leaves equals the set of mines; a
\* flagged set that holds every mine and a cell without one does not win.
C1_FlagWinsIffExact ==
    [][current_state = PLAYING =>
        \A p \in FirstCells(FlagCells) :
            ( /\ ~CellAt(board, p).revealed
              /\ ~CellAt(board, p).flagged
              /\ ProcessPlaying(CMD_FLAG, Text(p[1], p[2])) )
            => ( current_state' = PLAYER_WON
                 <=> flagged_locations' = MineCells(board) )]_vars

\* C2: the reveal of a hidden, unflagged mine in Playing leaves every mine
\* revealed and the controller in Lost, and the cells without a mine as
\* revealed as they were.
C2_RevealMineLoses ==
    [][current_state = PLAYING =>
        \A p \in PlayCells, line \in RevealLines :
            ( /\ CellAt(board, p).character = MINE
              /\ ~CellAt(board, p).revealed
              /\ ~CellAt(board, p).flagged
              /\ ProcessPlaying(line, Text(p[1], p[2])) )
            => ( /\ current_state' = PLAYER_LOST
                 /\ MineCells(board) \subseteq RevealedCells(board')
                 /\ MineCells(board') = MineCells(board)
                 /\ \A q \in SafeCells(board) :
                        CellAt(board', q).revealed = CellAt(board, q).revealed )]_vars

C2_Witness ==
    /\ current_state = PLAYER_LOST
    /\ MineCells(board) # {}
    /\ MineCells(board) \subseteq RevealedCells(board)
    /\ \E q \in SafeCells(board) : CellAt(board, q).revealed
    /\ \E q \in SafeCells(board) : ~CellAt(board, q).revealed

\* C3: reveal_cell on a hidden cell c without a mine adds to the revealed
\* cells exactly {c} when c is a Number, and when c is Empty the 8-connected
\* region of Empty cells around c with the Number cells next to that region;
\* it reveals no mine.
C3_RevealCellSet ==
    [][\A p \in Coords(board) :
          BoardReveal(p[1], p[2])
          => ( /\ RevealedCells(board')
                    = RevealedCells(board) \cup RevealSet(board, p)
               /\ RevealedCells(board') \cap MineCells(board) = {}
               /\ MineCells(board') = MineCells(board)
               /\ FlaggedCells(board') = FlaggedCells(board) )]_vars

C3_Witness ==
    /\ MineCells(board) # {}
    /\ Cardinality({p \in RevealedCells(board) :
                       CellAt(board, p).character = EMPTY_SPACE}) >= 2
    /\ \E p \in RevealedCells(board) :
           CellAt(board, p).character \notin {EMPTY_SPACE, MINE}
    /\ \E p \in SafeCells(board) : ~CellAt(board, p).revealed

\* C4: no cell of the board is flagged and revealed at once.
C4_NeverFlaggedAndRevealed ==
    board # None =>
        \A p \in Coords(board) :
            ~(CellAt(board, p).flagged /\ CellAt(board, p).revealed)

\* C5 as stated: a reveal command in Playing that leaves every cell without
\* a mine revealed, and no mine revealed, moves the controller to Won.
C5_RevealAllWins ==
    [][( /\ current_state = PLAYING
         /\ SafeCells(board') \subseteq RevealedCells(board')
         /\ RevealedCells(board') \cap MineCells(board') = {}
         /\ \E line \in RevealLines, move \in MoveLines :
                ProcessPlaying(line, move) )
       => current_state' = PLAYER_WON]_vars

\* C5: a reveal command in Playing that leaves every cell without a mine
\* revealed, and no mine revealed, leaves the controller in Playing.
C5_RevealAllStaysPlaying ==
    [][( /\ current_state = PLAYING
         /\ SafeCells(board') \subseteq RevealedCells(board')
         /\ RevealedCells(board') \cap MineCells(board') = {}
         /\ \E line \in RevealLines, move \in MoveLines :
                ProcessPlaying(line, move) )
       => current_state' = PLAYING]_vars

C5_Witness ==
    /\ current_state = PLAYING
    /\ mode = CMD_REVEAL
    /\ SafeCells(board) \subseteq RevealedCells(board)
    /\ RevealedCells(board) \cap MineCells(board) = {}

\* C6: unflag on a flagged, hidden cell clears the cell's flag, adds 1 to
\* mines_left and takes the coordinate out of the flagged set; unflag on any
\* other cell changes nothing.
C6_UnflagUndoesFlag ==
    [][current_state = PLAYING =>
        \A p \in PlayCells :
            ProcessPlaying(CMD_UNFLAG, Text(p[1], p[2]))
            => IF CellAt(board, p).flagged /\ ~CellAt(board, p).revealed
               THEN /\ ~CellAt(board', p).flagged
                    /\ mines_left' = mines_left + 1
                    /\ flagged_locations' = flagged_locations \ {p}
               ELSE /\ board' = board
                    /\ mines_left' = mines_left
                    /\ flagged_locations' = flagged_locations]_vars

\* C7: a new-game setup that builds a board leaves the controller in
\* Playing, with no cell of the board revealed or flagged, mines_left the
\* mine count of the board, and the flagged set empty.
C7_NewGameIsFresh ==
    [][(current_state = NEW_GAME /\ current_state' = PLAYING)
        => ( /\ RevealedCells(board') = {}
             /\ FlaggedCells(board') = {}
             /\ mines_left' = board'.number_of_mines
             /\ flagged_locations' = {} )]_vars

\* C8: the reset command in Playing moves the controller to Reset and
\* nothing else; the step out of Reset leaves the same board with every cell
\* hidden and unflagged, the mines and numbers where they were, mines_left
\* the board's number of mines, the flagged set empty, and the controller
\* in Playing.
C8_ResetKeepsLayout ==
    [][/\ current_state = PLAYING =>
            \A move \in MoveLines :
                ProcessPlaying(CMD_RESET, move)
                => ( /\ current_state' = RESET
                     /\ board' = board
                     /\ mines_left' = mines_left
                     /\ flagged_locations' = flagged_locations )
       /\ current_state = RESET =>
            ( /\ current_state' = PLAYING
              /\ RevealedCells(board') = {}
              /\ FlaggedCells(board') = {}
              /\ board'.width = board.width
              /\ board'.height = board.height
              /\ board'.number_of_mines = board.number_of_mines
              /\ board'.mine_locations = board.mine_locations
              /\ \A p \in Coords(board) :
                     CellAt(board', p).character = CellAt(board, p).character
              /\ mines_left' = board.number_of_mines
              /\ flagged_locations' = {} )]_vars

C8_Witness ==
    /\ current_state = RESET
    /\ RevealedCells(board) # {}
    /\ FlaggedCells(board) # {}
    /\ flagged_locations # {}
    /\ mines_left # board.number_of_mines

\* C9: new-game setup with integers w, h, m builds a board and enters
\* Playing exactly when 9 <= w <= 30, 9 <= h <= 24 and 10 <= m <=
\* (w-1)(h-1); otherwise it leaves no board and does not enter Playing.
C9_SetupBounds ==
    [][current_state = NEW_GAME =>
        \A t \in SetupLines :
            LET width_line == t[1]
                height_line == t[2]
                mines_line == t[3]
                w == ParseInt(width_line).value
                h == ParseInt(height_line).value
                m == ParseInt(mines_line).value
                outcome ==
                    IF /\ 9 <= w /\ w <= 30
                       /\ 9 <= h /\ h <= 24
                       /\ 10 <= m /\ m <= (w - 1) * (h - 1)
                    THEN /\ current_state' = PLAYING
                         /\ board' # None
                         /\ board'.width = w
                         /\ board'.height = h
                         /\ board'.number_of_mines = m
                    ELSE /\ current_state' # PLAYING
                         /\ board' = None
            IN  \/ outcome
                \/ ~ParseInt(width_line).ok
                \/ ~ParseInt(height_line).ok
                \/ ~ParseInt(mines_line).ok
                \/ ~ProcessNewGame(width_line, height_line, mines_line,
                                   SetupDraws(t), SetupDraws(t))]_vars

C9_Witness ==
    /\ current_state = NEW_GAME
    /\ board = None

\* C10: a constructed board has exactly number_of_mines Mine cells, at
\* distinct coordinates of the grid, and mine_locations is the set of the
\* coordinates of its Mine cells.
C10_MinesPlaced ==
    /\ Cardinality({i \in DOMAIN board.cells :
                       board.cells[i].character = MINE})
           = board.number_of_mines
    /\ Cardinality(board.mine_locations) = board.number_of_mines
    /\ board.mine_locations \subseteq Coords(board)
    /\ board.mine_locations = MineCells(board)

C10_Witness ==
    /\ board.number_of_mines >= 2
    /\ Cardinality(MineCells(board)) = board.number_of_mines
    /\ RevealedCells(board) = {}

\* The number of mines among the cells that touch p
MinesAround(b, p) == Cardinality({q \in MineCells(b) : Touching(p, q)})

\* C11: on a constructed board every cell without a mine that touches k >= 1
\* mines holds the number k, and every cell without a mine that touches none
\* is Empty.
C11_NumbersCountMines ==
    \A p \in SafeCells(board) :
        CellAt(board, p).character =
            IF MinesAround(board, p) = 0 THEN EMPTY_SPACE
            ELSE DigitChars[MinesAround(board, p) + 1]

C11_Witness ==
    /\ RevealedCells(board) = {}
    /\ \E p \in SafeCells(board) : MinesAround(board, p) >= 3
    /\ \E p \in SafeCells(board) : MinesAround(board, p) = 1
    /\ \E p \in SafeCells(board) : CellAt(board, p).character = EMPTY_SPACE

\* The lines that give the flag command: the word, and "FLAG"
FlagLines == {CMD_FLAG, <<70, 76, 65, 71>>}

\* Nothing but the mode changes
OnlyModeChanges ==
    /\ board' = board
    /\ mines_left' = mines_left
    /\ flagged_locations' = flagged_locations
    /\ current_state' = current_state

\* C12: in Playing, a reveal command or a flag command on a cell that is
\* revealed or flagged leaves the board, mines_left, the flagged set and the
\* controller state as they were.
C12_IllegalMoveChangesNothing ==
    [][current_state = PLAYING =>
        \A p \in PlayCells, line \in RevealLines \cup FlagLines :
            ( /\ CellAt(board, p).revealed \/ CellAt(board, p).flagged
              /\ ProcessPlaying(line, Text(p[1], p[2])) )
            => OnlyModeChanges]_vars

C12_Witness ==
    /\ current_state = PLAYING
    /\ mode = CMD_FLAG
    /\ \E p \in PlayCells : CellAt(board, p).flagged /\ ~CellAt(board, p).revealed
    /\ \E p \in PlayCells : CellAt(board, p).revealed
    /\ mines_left = board.number_of_mines - Cardinality(FlaggedCells(board))

\* The lines that give a command with a position
MoveCommandLines == {CMD_REVEAL, CMD_FLAG, CMD_UNFLAG}

\* The characters a position token may hold: 0-9, A-Z, a-z
TokenChars == (48 .. 57) \cup (65 .. 90) \cup (97 .. 122)

WellFormed(token) ==
    Len(token) = 2 /\ \A k \in DOMAIN token : token[k] \in TokenChars

\* C13: in Playing, a reveal, flag or unflag command with a position token
\* that is not two characters long, or that holds a character outside
\* [0-9a-zA-Z], leaves the board, mines_left, the flagged set and the
\* controller state as they were.
C13_MalformedTokenIgnored ==
    [][current_state = PLAYING =>
        \A token \in TokenLines, line \in MoveCommandLines :
            (~WellFormed(token) /\ ProcessPlaying(line, token))
            => OnlyModeChanges]_vars

\* C14: in Playing, a reveal, flag or unflag command whose well-formed token
\* decodes to a coordinate with x >= width or y >= height leaves the board,
\* mines_left, the flagged set and the controller state as they were.
C14_OutOfBoundsDiscarded ==
    [][current_state = PLAYING =>
        \A token \in TokenLines, line \in MoveCommandLines :
            ( /\ WellFormed(token)
              /\ \/ convert_move_to_xy(token)[1] >= board.width
                 \/ convert_move_to_xy(token)[2] >= board.height
              /\ ProcessPlaying(line, token) )
            => OnlyModeChanges]_vars

C14_Witness ==
    /\ current_state = PLAYING
    /\ board.width = 12
    /\ mode = CMD_UNFLAG
    /\ FlaggedCells(board) = {}
    /\ flagged_locations = {}
    /\ RevealedCells(board) = {}

\* The coordinate a character stands for: a digit its value, a letter of
\* either case 10 plus its place in the alphabet
CharValue(ch) ==
    IF ch >= 48 /\ ch <= 57 THEN ch - 48
    ELSE IF ch >= 97 /\ ch <= 122 THEN ch - 97 + 10
    ELSE ch - 65 + 10

TokenValue(token) == <<CharValue(token[1]), CharValue(token[2])>>

\* C15: the decoder maps a two-character token of digits and letters to
\* (x, y), the first character giving x and the second y, each a digit's
\* value or 10 plus a letter's place in the alphabet whatever its case; so a
\* flag command with the token of a hidden, unflagged cell flags that cell.
C15_DecoderIgnoresCase ==
    [][current_state = PLAYING =>
        \A token \in TokenLines :
            (WellFormed(token) /\ ProcessPlaying(CMD_FLAG, token))
            => /\ convert_move_to_xy(token) = TokenValue(token)
               /\ LET p == TokenValue(token)
                  IN  ( /\ p \in Coords(board)
                        /\ ~CellAt(board, p).revealed
                        /\ ~CellAt(board, p).flagged )
                      => /\ CellAt(board', p).flagged
                         /\ FlaggedCells(board') = FlaggedCells(board) \cup {p}]_vars

\* C16: the controller starts in Menu; in Menu the line "new" or the empty
\* line moves it to the new-game setup, the line "quit" moves it to Quit, and
\* any other line leaves it in Menu; none of them touches the board, the
\* mode, mines_left or the flagged set.
C16_MenuChoices ==
    /\ current_state = MENU
    /\ [][current_state = MENU =>
            \A line \in MenuLines :
                ProcessMenu(line)
                => /\ current_state' =
                        IF line \in {CMD_NEW, <<>>} THEN NEW_GAME
                        ELSE IF line = CMD_QUIT THEN PLAYER_QUIT
                        ELSE MENU
                   /\ UNCHANGED <<board, mode, mines_left, flagged_locations>>]_vars

C16_Witness ==
    /\ current_state = NEW_GAME
    /\ board # None
    /\ MineCells(board) \subseteq RevealedCells(board)
    /\ flagged_locations # {}

\* C17: the step taken in Won or in Lost depends on no input and ends in
\* Menu; the step out of Won changes nothing else, the step out of Lost
\* leaves every mine revealed and changes no other bit; Menu is left only
\* for New-game or Quit, and Playing is entered only from New-game.
C17_WonLostTransient ==
    [][ /\ current_state = PLAYER_WON
            => /\ current_state' = MENU
               /\ UNCHANGED <<board, mode, mines_left, flagged_locations>>
        /\ current_state = PLAYER_LOST
            => /\ current_state' = MENU
               /\ MineCells(board') \subseteq RevealedCells(board')
               /\ MineCells(board') = MineCells(board)
               /\ RevealedCells(board') = RevealedCells(board) \cup MineCells(board)
               /\ FlaggedCells(board') = FlaggedCells(board)
               /\ UNCHANGED <<mode, mines_left, flagged_locations>>
        /\ current_state = MENU
            => current_state' \in {MENU, NEW_GAME, PLAYER_QUIT}
        /\ (current_state' = PLAYING /\ current_state # PLAYING)
            => current_state = NEW_GAME
      ]_vars

\* Menu after a lost game that was won before: every mine is revealed and
\* every mine is in the flagged set
C17_Witness ==
    /\ current_state = MENU
    /\ board # None
    /\ MineCells(board) # {}
    /\ MineCells(board) \subseteq RevealedCells(board)
    /\ MineCells(board) \subseteq flagged_locations

\* C18: no step is taken from Quit, and a step that enters Quit is the menu's
\* step on the line "quit" or the Playing step on a line that reads "quit"
\* in lower case, and changes nothing but the controller state.
C18_QuitTerminal ==
    [][ /\ current_state # PLAYER_QUIT
        /\ current_state' = PLAYER_QUIT
            => /\ UNCHANGED <<board, mode, mines_left, flagged_locations>>
               /\ \/ current_state = MENU /\ ProcessMenu(CMD_QUIT)
                  \/ /\ current_state = PLAYING
                     /\ \E line \in EndLines :
                            /\ lower(line) = CMD_QUIT
                            /\ ProcessPlaying(line, Text(0, 0))
      ]_vars

\* Quit reached from a game with flags on the board
C18_Witness ==
    /\ current_state = PLAYER_QUIT
    /\ board # None
    /\ FlaggedCells(board) # {}
    /\ RevealedCells(board) = {}

\* C19: in Playing, a reveal command (the line "reveal" or the empty line)
\* on any cell leaves unrevealed every cell that was flagged and unrevealed
\* before it, whether the command aims at that cell or at another one.
C19_FlagBlocksReveal ==
    [][current_state = PLAYING =>
        \A p \in PlayCells, line \in RevealLines :
            ProcessPlaying(line, Text(p[1], p[2]))
            => \A q \in FlaggedCells(board) \ RevealedCells(board) :
                   ~CellAt(board', q).revealed
      ]_vars

\* C20: whenever the controller is Playing, the flagged set is exactly the
\* set of coordinates of the cells whose flagged bit is set.
C20_FlaggedSetMatchesBoard ==
    current_state = PLAYING => flagged_locations = FlaggedCells(board)

\* The flood fill observed: FloodStep on a machine that also counts its
\* steps and, for every coordinate, the calls of reveal_surrounding_cells
\* made on it.
CountStep(m) ==
    LET n == FloodStep(m)
        f == n.stack[Len(n.stack)]
    IN  IF Len(n.stack) > Len(m.stack)
        THEN [n EXCEPT !.steps = @ + 1,
                       !.calls[<<f.starting_x, f.starting_y>>] = @ + 1]
        ELSE [n EXCEPT !.steps = @ + 1]

RECURSIVE CountRun(_, _)
CountRun(m, n) ==
    IF n = 0 \/ m.stack = <<>> THEN m
    ELSE IF n = 1 THEN CountStep(m)
    ELSE CountRun(CountRun(m, n \div 2), n - (n \div 2))

\* A call makes at most 8 passes of two steps, one step for each call it
\* makes, and one step to return; a cell enters a next_cells list once and
\* is called on from it in at most 8 passes.
FloodBound(b) == 18 * (1 + 8 * b.width * b.height)

\* reveal_cell(x, y) on the Empty cell (x, y) of b, observed
FloodTrace(b, p) ==
    CountRun([b |-> [b EXCEPT !.cells[p[2] * b.width + p[1]].revealed = TRUE],
              stack |-> <<Frame(p[1], p[2])>>,
              steps |-> 0,
              calls |-> [q \in Coords(b) |-> IF q = p THEN 1 ELSE 0]],
             FloodBound(b))

EmptyCells(b) == {p \in Coords(b) : CellAt(b, p).character = EMPTY_SPACE}

\* C21: in the reveal of any hidden Empty cell of the board,
\* reveal_surrounding_cells is called at most once on each coordinate.
C21_NoDoubleProcess ==
    \A p \in EmptyCells(board) \ RevealedCells(board) :
        \A q \in Coords(board) : FloodTrace(board, p).calls[q] <= 1

\* C22: on every board and from every Empty cell of it, the flood fill of
\* reveal_cell returns within FloodBound steps, after at most one call and 8
\* more for each Empty cell, and the cells it turns from hidden to revealed
\* are at most width * height.
C22_FloodTerminates ==
    \A p \in EmptyCells(board) :
        LET t == FloodTrace(board, p)
            turned == RevealedCells(t.b) \ RevealedCells(board)
        IN  /\ t.stack = <<>>
            /\ t.steps <= FloodBound(board)
            /\ \A q \in Coords(board) :
                   t.calls[q] <= IF q \in EmptyCells(board) THEN 8 ELSE 0
            /\ Cardinality(turned) <= board.width * board.height
            /\ ~is_revealed(board, p[1], p[2])
                   => t.b = reveal_cell(board, p[1], p[2])

\* a board on which a flood fill has run through two Empty cells and left
\* other Empty cells, behind the mines, hidden
C22_Witness ==
    /\ Cardinality(EmptyCells(board) \cap RevealedCells(board)) >= 2
    /\ EmptyCells(board) \ RevealedCells(board) # {}
    /\ MineCells(board) # {}

\* C23: a pass of the new-game setup in which one of the three answers is
\* not an integer ends in Playing on a board built once with the default
\* parameters: 9 x 9 cells, 10 mines, nothing revealed or flagged, and
\* mines-left 10; the answers that are integers are not used.
C23_FallbackToDefaults ==
    [][current_state = NEW_GAME =>
        \A t \in NonIntSetupLines :
            ProcessNewGame(t[1], t[2], t[3], RowDraws, RowDraws)
            => /\ current_state' = PLAYING
               /\ board' # None
               /\ board' = NewBoard(9, 9, 10, RowDraws).board
               /\ board'.width = 9
               /\ board'.height = 9
               /\ board'.number_of_mines = 10
               /\ Cardinality(MineCells(board')) = 10
               /\ RevealedCells(board') = {}
               /\ FlaggedCells(board') = {}
               /\ mines_left' = 10
               /\ UNCHANGED <<mode, flagged_locations>>
      ]_vars

\* a default game that follows a game on the 12 x 9 board, whose flag on
\* (11,0) is still in the flagged set
C23_Witness ==
    /\ current_state = PLAYING
    /\ board.width = 9
    /\ <<11, 0>> \in flagged_locations
    /\ mines_left = 10

\* the lines of Spec that name none of the six commands, and are not the
\* empty line, which get_command reads as "reveal"
UnknownLines ==
    {line \in CommandLines :
        /\ line # <<>>
        /\ lower(line) \notin {CMD_REVEAL, CMD_FLAG, CMD_UNFLAG,
                               CMD_NEW, CMD_RESET, CMD_QUIT}}

\* C24: in Playing, "new" moves the controller to the new-game setup and
\* "quit" to Quit, both leaving the board, mines-left and the flagged set as
\* they are; a line that names none of the six commands changes nothing.
C24_NewQuitUnknown ==
    [][current_state = PLAYING =>
        \A move \in MoveLines :
            /\ ProcessPlaying(CMD_NEW, move)
                => /\ current_state' = NEW_GAME
                   /\ UNCHANGED <<board, mode, mines_left, flagged_locations>>
            /\ ProcessPlaying(CMD_QUIT, move)
                => /\ current_state' = PLAYER_QUIT
                   /\ UNCHANGED <<board, mode, mines_left, flagged_locations>>
            /\ \A line \in UnknownLines :
                   ProcessPlaying(line, move) => UNCHANGED vars
      ]_vars

\* the new-game setup entered from a game in play, with a flag and revealed
\* cells on its board and hidden mines
C24_Witness ==
    /\ current_state = NEW_GAME
    /\ board # None
    /\ FlaggedCells(board) # {}
    /\ RevealedCells(board) # {}
    /\ MineCells(board) \cap RevealedCells(board) = {}

\* C25: whenever the controller is Playing, Won or Lost, mines-left is the
\* board's number of mines less the number of cells whose flagged bit is
\* set.
C25_MinesLeftCounts ==
    current_state \in {PLAYING, PLAYER_WON, PLAYER_LOST}
        => mines_left
               = board.number_of_mines - Cardinality(FlaggedCells(board))

\* a game won after a reveal, with a flag on every mine and on the number
\* (1,1): one flag more than mines, and mines-left below zero
C25_Witness ==
    /\ current_state = PLAYER_WON
    /\ RevealedCells(board) # {}
    /\ MineCells(board) \subseteq FlaggedCells(board)
    /\ CellAt(board, <<1, 1>>).flagged
    /\ mines_left = 0 - 1

\* the revealed mines of a board, none when there is no board
RevealedMines(b) ==
    IF b = None THEN {} ELSE MineCells(b) \cap RevealedCells(b)

\* C26: no mine is revealed while the controller is Playing; a step in which
\* a mine becomes revealed ends in Lost; and the controller enters Lost only
\* from Playing, on a reveal command (the line "reveal" or the empty line)
\* aimed at a hidden, unflagged mine.
C26_MinesHiddenInPlay ==
    /\ [](current_state = PLAYING => RevealedMines(board) = {})
    /\ [][ /\ ~(RevealedMines(board') \subseteq RevealedMines(board))
               => current_state' = PLAYER_LOST
           /\ (current_state' = PLAYER_LOST /\ current_state # PLAYER_LOST)
               => /\ current_state = PLAYING
                  /\ \E p \in PlayCells, line \in RevealLines :
                         /\ CellAt(board, p).character = MINE
                         /\ ~CellAt(board, p).revealed
                         /\ ~CellAt(board, p).flagged
                         /\ ProcessPlaying(line, Text(p[1], p[2]))
         ]_vars

\* a game in play after a flood fill that stopped at the mines: Empty cells
\* and numbers revealed, a mine flagged, every mine hidden
C26_Witness ==
    /\ current_state = PLAYING
    /\ EmptyCells(board) \cap RevealedCells(board) # {}
    /\ \E p \in RevealedCells(board) :
           CellAt(board, p).character \notin {EMPTY_SPACE, MINE}
    /\ FlaggedCells(board) \cap MineCells(board) # {}
    /\ RevealedMines(board) = {}

====
